---- MODULE Spec2Model ----
(***************************************************************************)
(* Mark-and-sweep collector of src/gc.c: the VM struct (allocation table,  *)
(* object table, operand stack), the stack operations vm_push_int,         *)
(* vm_push_pair and vm_pop, and the collector gc_mark_all / gc_sweep.      *)
(*                                                                         *)
(* A failed assert() aborts the process: the message of the assertion is   *)
(* recorded in err and no operation runs afterwards.  The VM is left as    *)
(* the code left it when the assertion failed.                             *)
(***************************************************************************)
EXTENDS Integers, Sequences, FiniteSets

\* ---------------------------------------------------------------- bounds
\* OBJECTS_MAX (1024 in gc.c:43) and STACK_MAX (256 in gc.c:50), scaled down.
OBJECTS_MAX == 4
STACK_MAX == 2
INITIAL_GC_THRESHOLD == 128

\* The integers pushed by vm_push_int.
Values == {11, 22, 33}

ObjectIndex == 0 .. (OBJECTS_MAX - 1)

\* ---------------------------------------------------------------- objects
OBJECT_INT == "OBJECT_INT"
OBJECT_PAIR == "OBJECT_PAIR"

\* allocated_objects[i] before any allocation (the { 0 } initializer).
NULL == [type |-> "NULL"]
\* allocated_objects[i] after free(): the pointer stays, its target is gone.
FREED == [type |-> "FREED"]

IntObject(n) == [type |-> OBJECT_INT, value |-> n]
PairObject(a, b) == [type |-> OBJECT_PAIR, first |-> a, second |-> b]

\* ---------------------------------------------------------------- assert
NoErr == "none"
TooManyObjects == "Too many objects"
StackOverflow == "Stack overflow"
NoObjects == "No objects"
StackUnderflow == "Stack underflow"
NotAllocated == "Object not allocated"
\* the slot scan of vm_push running past the end of allocation_table
OutOfBounds == "out of bounds"

VARIABLES
    vm,         \* the VM struct
    err,        \* NoErr, or the message of the assertion that aborted
    arg,        \* the integer given to the last operation (0 when it takes none)
    ret,        \* value returned by the last operation (0 when it returns void)
    pc,         \* "idle", "marked" between gc_mark_all and gc_sweep, "freed" after vm_free
    op,         \* the last operation called
    pre_stack,  \* the stack when the last operation was called
    gc_cycles,  \* gc_sweep calls so far: "none", "one" or "many"
    heap,       \* number of Object blocks malloc returned and free has not taken back
    descents    \* number of slots gc_mark marked during the last operation

vars == <<vm, err, arg, ret, pc, op, pre_stack, gc_cycles, heap, descents>>

\* The running process: the VM, the abort status, the last vm_pop result.
\* Inside an operation ret carries the value the last vm_pop returned.
\* heap counts the Object blocks in use, descents the marks the running
\* operation has set.
Proc == [vm |-> vm, err |-> err, ret |-> ret, heap |-> heap, descents |-> 0]

\* Object *obj = malloc(sizeof(Object));
malloc(p) == [p EXCEPT !.heap = @ + 1]

stack_size(v) == Len(v.stack)

vm_init ==
    [ object_count |-> 0,
      gc_threshold |-> INITIAL_GC_THRESHOLD,
      allocation_table |-> [i \in ObjectIndex |-> [allocated |-> FALSE, marked |-> FALSE]],
      allocated_objects |-> [i \in ObjectIndex |-> NULL],
      stack |-> << >> ]

\* free(vm): the VM struct goes, no Object block is freed.
vm_free(p) == p

vm_get(v, index) == v.allocated_objects[index]

\* ---------------------------------------------------------------- vm_push
\* The slot scan without its loop: the index it starts at is the answer.
FindSlot_noscan(v, obj_idx) == obj_idx

\* while (allocation_table[obj_idx].allocated) obj_idx += 1;
RECURSIVE FindSlot(_, _)
FindSlot(v, obj_idx) ==
    IF obj_idx >= OBJECTS_MAX THEN OBJECTS_MAX
    ELSE IF v.allocation_table[obj_idx].allocated THEN FindSlot(v, obj_idx + 1)
    ELSE obj_idx

\* vm_push whose slot scan starts at index 1.
vm_push_from_one(p, object) ==
    IF p.err # NoErr THEN p
    ELSE IF ~(p.vm.object_count < OBJECTS_MAX) THEN [p EXCEPT !.err = TooManyObjects]
    ELSE IF ~(stack_size(p.vm) < STACK_MAX) THEN [p EXCEPT !.err = StackOverflow]
    ELSE LET obj_idx == FindSlot(p.vm, 1) IN
         IF obj_idx >= OBJECTS_MAX THEN [p EXCEPT !.err = OutOfBounds]
         ELSE [p EXCEPT !.vm.allocation_table[obj_idx].allocated = TRUE,
                        !.vm.allocated_objects[obj_idx] = object,
                        !.vm.object_count = @ + 1,
                        !.vm.stack = Append(@, obj_idx)]

\* vm_push without the "Too many objects" assertion.
vm_push_unchecked(p, object) ==
    IF p.err # NoErr THEN p
    ELSE IF ~(stack_size(p.vm) < STACK_MAX) THEN [p EXCEPT !.err = StackOverflow]
    ELSE LET obj_idx == FindSlot(p.vm, 0) IN
         IF obj_idx >= OBJECTS_MAX THEN [p EXCEPT !.err = OutOfBounds]
         ELSE [p EXCEPT !.vm.allocation_table[obj_idx].allocated = TRUE,
                        !.vm.allocated_objects[obj_idx] = object,
                        !.vm.object_count = @ + 1,
                        !.vm.stack = Append(@, obj_idx)]

vm_push(p, object) ==
    IF p.err # NoErr THEN p
    ELSE IF ~(p.vm.object_count < OBJECTS_MAX) THEN [p EXCEPT !.err = TooManyObjects]
    ELSE IF ~(stack_size(p.vm) < STACK_MAX) THEN [p EXCEPT !.err = StackOverflow]
    ELSE LET obj_idx == FindSlot(p.vm, 0) IN
         IF obj_idx >= OBJECTS_MAX THEN [p EXCEPT !.err = OutOfBounds]
         ELSE [p EXCEPT !.vm.allocation_table[obj_idx].allocated = TRUE,
                        !.vm.allocated_objects[obj_idx] = object,
                        !.vm.object_count = @ + 1,
                        !.vm.stack = Append(@, obj_idx)]

\* ---------------------------------------------------------------- vm_pop
\* vm_pop that releases the slot of the handle it pops.
vm_pop_releasing(p) ==
    IF p.err # NoErr THEN p
    ELSE IF ~(p.vm.object_count > 0) THEN [p EXCEPT !.err = NoObjects]
    ELSE IF ~(stack_size(p.vm) > 0) THEN [p EXCEPT !.err = StackUnderflow]
    ELSE LET top == p.vm.stack[Len(p.vm.stack)] IN
         [p EXCEPT !.vm.stack = SubSeq(@, 1, Len(@) - 1),
                   !.vm.allocation_table[top].allocated = FALSE,
                   !.vm.object_count = @ - 1,
                   !.ret = top]

vm_pop(p) ==
    IF p.err # NoErr THEN p
    ELSE IF ~(p.vm.object_count > 0) THEN [p EXCEPT !.err = NoObjects]
    ELSE IF ~(stack_size(p.vm) > 0) THEN [p EXCEPT !.err = StackUnderflow]
    ELSE [p EXCEPT !.vm.stack = SubSeq(@, 1, Len(@) - 1),
                   !.ret = p.vm.stack[Len(p.vm.stack)]]

\* vm_push_int that stores the type tag and leaves the value at 0.
vm_push_int_zero(p, n) == vm_push(malloc(p), IntObject(0))

vm_push_int(p, n) == vm_push(malloc(p), IntObject(n))

\* vm_push_pair with the two fields filled in the other order.
vm_push_pair_swapped(p) ==
    LET p1 == vm_pop(malloc(p))
        p2 == vm_pop(p1)
    IN  vm_push(p2, PairObject(p2.ret, p1.ret))

\* .first = vm_pop(vm), .second = vm_pop(vm): evaluated in the order written.
vm_push_pair(p) ==
    LET p1 == vm_pop(malloc(p))
        p2 == vm_pop(p1)
    IN  vm_push(p2, PairObject(p1.ret, p2.ret))

\* ---------------------------------------------------------------- collector
RECURSIVE gc_mark(_, _)
\* gc_mark that follows only the first field of a pair.
gc_mark_first_only(p, object_index) ==
    IF p.err # NoErr THEN p
    ELSE IF ~p.vm.allocation_table[object_index].allocated
         THEN [p EXCEPT !.err = NotAllocated]
    ELSE IF p.vm.allocation_table[object_index].marked THEN p
    ELSE LET q == [p EXCEPT !.vm.allocation_table[object_index].marked = TRUE,
                            !.descents = @ + 1]
             obj == q.vm.allocated_objects[object_index]
         IN  IF obj.type = OBJECT_PAIR
             THEN gc_mark(q, obj.first)
             ELSE q

\* gc_mark that, on a pair already marked, sets the mark bits of its two fields.
gc_mark_children_of_marked(p, object_index) ==
    IF p.err # NoErr THEN p
    ELSE IF ~p.vm.allocation_table[object_index].allocated
         THEN [p EXCEPT !.err = NotAllocated]
    ELSE IF p.vm.allocation_table[object_index].marked
         THEN LET obj == p.vm.allocated_objects[object_index]
              IN  IF obj.type = OBJECT_PAIR
                  THEN [p EXCEPT !.vm.allocation_table[obj.first].marked = TRUE,
                                 !.vm.allocation_table[obj.second].marked = TRUE]
                  ELSE p
    ELSE LET q == [p EXCEPT !.vm.allocation_table[object_index].marked = TRUE,
                            !.descents = @ + 1]
             obj == q.vm.allocated_objects[object_index]
         IN  IF obj.type = OBJECT_PAIR
             THEN gc_mark(gc_mark(q, obj.first), obj.second)
             ELSE q

\* gc_mark that returns early only on a marked pair: an integer is marked
\* again every time it is visited.
gc_mark_ints_again(p, object_index) ==
    IF p.err # NoErr THEN p
    ELSE IF ~p.vm.allocation_table[object_index].allocated
         THEN [p EXCEPT !.err = NotAllocated]
    ELSE IF /\ p.vm.allocation_table[object_index].marked
            /\ p.vm.allocated_objects[object_index].type = OBJECT_PAIR
         THEN p
    ELSE LET q == [p EXCEPT !.vm.allocation_table[object_index].marked = TRUE,
                            !.descents = @ + 1]
             obj == q.vm.allocated_objects[object_index]
         IN  IF obj.type = OBJECT_PAIR
             THEN gc_mark(gc_mark(q, obj.first), obj.second)
             ELSE q

gc_mark(p, object_index) ==
    IF p.err # NoErr THEN p
    ELSE IF ~p.vm.allocation_table[object_index].allocated
         THEN [p EXCEPT !.err = NotAllocated]
    ELSE IF p.vm.allocation_table[object_index].marked THEN p
    ELSE LET q == [p EXCEPT !.vm.allocation_table[object_index].marked = TRUE,
                            !.descents = @ + 1]
             obj == q.vm.allocated_objects[object_index]
         IN  IF obj.type = OBJECT_PAIR
             THEN gc_mark(gc_mark(q, obj.first), obj.second)
             ELSE q

\* for (i = 0; i < stack_size; i++) gc_mark(vm, stack[i]);
RECURSIVE MarkFrom(_, _)
MarkFrom(p, i) ==
    IF i > stack_size(p.vm) THEN p
    ELSE MarkFrom(gc_mark(p, p.vm.stack[i]), i + 1)

\* gc_mark_all whose loop starts at the second stack entry.
gc_mark_all_skip_first(p) == MarkFrom(p, 2)

gc_mark_all(p) == MarkFrom(p, 1)

\* for (obj_idx = 0; obj_idx < OBJECTS_MAX; obj_idx++) { ... }
RECURSIVE SweepFrom(_, _)
\* The sweep loop without object_count -= 1.
SweepFrom_no_decrement(p, obj_idx) ==
    IF obj_idx >= OBJECTS_MAX THEN p
    ELSE LET ate == p.vm.allocation_table[obj_idx] IN
         IF ~ate.allocated THEN p
         ELSE IF ate.marked
              THEN SweepFrom([p EXCEPT !.vm.allocation_table[obj_idx].marked = FALSE],
                             obj_idx + 1)
              ELSE SweepFrom([p EXCEPT !.vm.allocation_table[obj_idx].allocated = FALSE,
                                       !.vm.allocated_objects[obj_idx] = FREED,
                                       !.heap = @ - 1],
                             obj_idx + 1)

SweepFrom(p, obj_idx) ==
    IF obj_idx >= OBJECTS_MAX THEN p
    ELSE LET ate == p.vm.allocation_table[obj_idx] IN
         IF ~ate.allocated THEN p
         ELSE IF ate.marked
              THEN SweepFrom([p EXCEPT !.vm.allocation_table[obj_idx].marked = FALSE],
                             obj_idx + 1)
              ELSE SweepFrom([p EXCEPT !.vm.allocation_table[obj_idx].allocated = FALSE,
                                       !.vm.allocated_objects[obj_idx] = FREED,
                                       !.heap = @ - 1,
                                       !.vm.object_count = @ - 1],
                             obj_idx + 1)

gc_sweep(p) == SweepFrom(p, 0)

\* ---------------------------------------------------------------- actions
Init ==
    /\ vm = vm_init
    /\ err = NoErr
    /\ arg = 0
    /\ ret = 0
    /\ pc = "idle"
    /\ op = "vm_init"
    /\ pre_stack = << >>
    /\ gc_cycles = "none"
    /\ heap = 0
    /\ descents = 0

\* The process is alive and no collection is in progress.
Running == err = NoErr /\ pc = "idle"

Call(name, n, p) ==
    /\ vm' = p.vm
    /\ arg' = n
    /\ err' = p.err
    /\ ret' = IF name = "vm_pop" THEN p.ret ELSE 0
    /\ op' = name
    /\ pre_stack' = vm.stack
    /\ heap' = p.heap
    /\ descents' = p.descents

VmPushInt ==
    /\ Running
    /\ \E n \in Values : Call("vm_push_int", n, vm_push_int(Proc, n))
    /\ UNCHANGED <<pc, gc_cycles>>

VmPushPair ==
    /\ Running
    /\ Call("vm_push_pair", 0, vm_push_pair(Proc))
    /\ UNCHANGED <<pc, gc_cycles>>

VmPop ==
    /\ Running
    /\ Call("vm_pop", 0, vm_pop(Proc))
    /\ UNCHANGED <<pc, gc_cycles>>

GcMarkAll ==
    /\ Running
    /\ Call("gc_mark_all", 0, gc_mark_all(Proc))
    /\ pc' = "marked"
    /\ UNCHANGED gc_cycles

GcSweep ==
    /\ err = NoErr
    /\ pc = "marked"
    /\ Call("gc_sweep", 0, gc_sweep(Proc))
    /\ pc' = "idle"
    /\ gc_cycles' = IF gc_cycles = "none" THEN "one" ELSE "many"

\* vm_free(vm): the end of the VM; nothing may use it afterwards.
VmFree ==
    /\ Running
    /\ Call("vm_free", 0, vm_free(Proc))
    /\ pc' = "freed"
    /\ UNCHANGED gc_cycles

Next ==
    \/ VmPushInt
    \/ VmPushPair
    \/ VmPop
    \/ GcMarkAll
    \/ GcSweep
    \/ VmFree

Spec == Init /\ [][Next]_vars

\* ---------------------------------------------------------------- reachability
\* The handles on the operand stack.
Roots(v) == {v.stack[i] : i \in 1 .. Len(v.stack)}

\* The slots a pair stored at h refers to.
Children(v, h) ==
    IF v.allocated_objects[h].type = OBJECT_PAIR
    THEN {v.allocated_objects[h].first, v.allocated_objects[h].second}
    ELSE {}

RECURSIVE Closure(_, _)
Closure(v, S) ==
    LET T == S \cup UNION {Children(v, h) : h \in S}
    IN  IF T = S THEN S ELSE Closure(v, T)

\* Slots reachable from the operand stack through first/second.
Reachable(v) == Closure(v, Roots(v))

Occupied(v) == {h \in ObjectIndex : v.allocation_table[h].allocated}
Marked(v) == {h \in ObjectIndex : v.allocation_table[h].marked}

\* A collection (gc_mark_all, then gc_sweep) has just returned.
Collected == op = "gc_sweep" /\ err = NoErr

\* ---------------------------------------------------------------- claims

\* C1: when a collection returns, every slot reachable from the operand
\* stack through first/second is occupied.
C1_CollectKeepsReachable ==
    Collected => Reachable(vm) \subseteq Occupied(vm)

\* C2: when a collection returns, no occupied slot is unreachable and the
\* object count is the number of occupied slots left, also for slots that
\* lie after a free slot.
C2_CollectFreesUnreachable ==
    Collected =>
        /\ Occupied(vm) \subseteq Reachable(vm)
        /\ vm.object_count = Cardinality(Occupied(vm))

\* C3: between operations, with no collection in progress, no slot is marked.
C3_NoMarkOutsideCycle ==
    (pc = "idle" /\ err = NoErr) => Marked(vm) = {}

\* C4: right after gc_mark_all the marked slots are exactly the reachable ones.
C4_MarkedIffReachable ==
    (op = "gc_mark_all" /\ err = NoErr) => Marked(vm) = Reachable(vm)

\* C5: after the first collection of a VM the occupied slots are exactly the
\* reachable ones and object_count is their number.
C5_FirstCollectExact ==
    (Collected /\ gc_cycles = "one") =>
        /\ Occupied(vm) = Reachable(vm)
        /\ vm.object_count = Cardinality(Reachable(vm))

\* main(): 11, 22, pair, 33, pop, collect: the pair and its two integers
\* stay, the slot of 33 is free, three objects are left.
C5_Witness ==
    /\ Collected
    /\ gc_cycles = "one"
    /\ vm.stack = <<2>>
    /\ vm_get(vm, 2) = PairObject(1, 0)
    /\ vm_get(vm, 1) = IntObject(22)
    /\ vm_get(vm, 0) = IntObject(11)
    /\ Occupied(vm) = {0, 1, 2}
    /\ vm_get(vm, 3) = FREED
    /\ vm.object_count = 3

\* C6: vm_push_pair on a stack with A on top of B stores a pair with
\* first = A and second = B at a new handle, which replaces A and B on the
\* stack.
C6_PairOrder ==
    (op = "vm_push_pair" /\ err = NoErr) =>
        LET n == Len(pre_stack)
            h == vm.stack[Len(vm.stack)]
        IN  /\ n >= 2
            /\ vm_get(vm, h) = PairObject(pre_stack[n], pre_stack[n - 1])
            /\ vm.allocation_table[h].allocated
            /\ vm.stack = Append(SubSeq(pre_stack, 1, n - 2), h)
            /\ Len(vm.stack) = n - 1

\* 11, 22, pair: first is the slot of 22, second the slot of 11.
C6_Witness ==
    /\ op = "vm_push_pair"
    /\ err = NoErr
    /\ pre_stack = <<0, 1>>
    /\ vm.stack = <<2>>
    /\ vm_get(vm, vm_get(vm, 2).first) = IntObject(22)
    /\ vm_get(vm, vm_get(vm, 2).second) = IntObject(11)

\* C7: vm_push_int(n) succeeds whenever neither the object table nor the
\* stack is full, and a vm_pop right after it returns a handle of an
\* occupied slot holding the integer n, with the stack as before the push.
C7_PushIntPopRoundTrip ==
    [][ /\ (/\ Running
            /\ op' = "vm_push_int"
            /\ vm.object_count < OBJECTS_MAX
            /\ stack_size(vm) < STACK_MAX) => err' = NoErr
        /\ (op = "vm_push_int" /\ err = NoErr /\ op' = "vm_pop") =>
              /\ err' = NoErr
              /\ vm'.allocation_table[ret'].allocated
              /\ vm_get(vm', ret') = IntObject(arg)
              /\ vm'.stack = pre_stack
      ]_vars

\* A vm_pop has just undone a vm_push_int(33) on a stack of one handle.
C7_Witness ==
    /\ op = "vm_pop"
    /\ err = NoErr
    /\ Len(vm.stack) = 1
    /\ pre_stack = Append(vm.stack, ret)
    /\ vm_get(vm, ret) = IntObject(33)
    /\ vm.allocation_table[ret].allocated
    /\ ret \notin Reachable(vm)

\* C8: a successful vm_pop takes the top handle off the stack and changes
\* nothing else of the VM; a slot stops being occupied only in gc_sweep.
C8_PopFrame ==
    [][ /\ (op' = "vm_pop" /\ err' = NoErr) =>
              /\ vm.stack = Append(vm'.stack, ret')
              /\ vm' = [vm EXCEPT !.stack = vm'.stack]
        /\ \A h \in ObjectIndex :
              (vm.allocation_table[h].allocated /\ ~vm'.allocation_table[h].allocated)
                  => op' = "gc_sweep"
      ]_vars

\* The popped object is no root any more and still occupies its slot.
C8_Witness ==
    /\ op = "vm_pop"
    /\ err = NoErr
    /\ vm.stack = << >>
    /\ vm.allocation_table[ret].allocated
    /\ vm_get(vm, ret) = PairObject(1, 0)
    /\ vm.object_count = 3

\* Every slot of the object table is occupied.
ArenaFull(v) == \A h \in ObjectIndex : v.allocation_table[h].allocated

\* An allocation was called and left the occupancy flags and the count alone.
SameOccupancy ==
    /\ Occupied(vm') = Occupied(vm)
    /\ vm'.object_count = vm.object_count

\* C9, as claimed: with every slot occupied, vm_push_int and vm_push_pair
\* fail with "Too many objects" and leave occupancy and count unchanged.
C9_FullArenaTooManyObjects ==
    [][ (Running /\ ArenaFull(vm) /\ op' \in {"vm_push_int", "vm_push_pair"}) =>
            (err' = TooManyObjects /\ SameOccupancy)
      ]_vars

\* C9, amended: with every slot occupied, vm_push_int fails with "Too many
\* objects"; vm_push_pair fails with "Too many objects" when the stack holds
\* two handles or more and with "Stack underflow" when it holds fewer; in
\* every case occupancy and count are unchanged.
C9_FullArenaAllocationFails ==
    [][ (Running /\ ArenaFull(vm)) =>
          /\ op' = "vm_push_int" => (err' = TooManyObjects /\ SameOccupancy)
          /\ (op' = "vm_push_pair" /\ stack_size(vm) >= 2) =>
                (err' = TooManyObjects /\ SameOccupancy)
          /\ (op' = "vm_push_pair" /\ stack_size(vm) < 2) =>
                (err' = StackUnderflow /\ SameOccupancy)
      ]_vars

\* vm_push_pair on a full table with two roots aborted in vm_push.
C9_Witness ==
    /\ op = "vm_push_pair"
    /\ err = TooManyObjects
    /\ Len(pre_stack) = 2
    /\ ArenaFull(vm)
    /\ vm.object_count = OBJECTS_MAX

\* C10: when vm_push_int, vm_push_pair or vm_pop fails an assertion, the VM
\* (object table and stack) is as it was when the operation was called.
C10_FailureIsAtomic ==
    [][ (err' # NoErr /\ op' \in {"vm_push_int", "vm_push_pair", "vm_pop"}) =>
            vm' = vm
      ]_vars

\* C11: vm_pop called with an empty stack fails with "Stack underflow",
\* whatever the number of allocated objects, and that message is neither
\* "Too many objects" nor "Stack overflow".
C11_PopEmptyUnderflow ==
    (op = "vm_pop" /\ pre_stack = << >>) =>
        /\ err = StackUnderflow
        /\ err \notin {TooManyObjects, StackOverflow}

\* C13: an object that stays in its slot is never rewritten: over every step,
\* a slot occupied before and after holds the same object, and a slot stops
\* being occupied only in gc_sweep.
C13_HandlesStable ==
    [][ \A h \in ObjectIndex :
          /\ (vm.allocation_table[h].allocated /\ vm'.allocation_table[h].allocated)
                => vm_get(vm', h) = vm_get(vm, h)
          /\ (vm.allocation_table[h].allocated /\ ~vm'.allocation_table[h].allocated)
                => op' = "gc_sweep"
      ]_vars

\* The pair built first is still in slot 2 after a push into the slot a
\* collection freed and another collection.
C13_Witness ==
    /\ Collected
    /\ gc_cycles = "many"
    /\ vm.stack = <<2, 3>>
    /\ vm_get(vm, 2) = PairObject(1, 0)
    /\ vm_get(vm, 1) = IntObject(22)
    /\ vm_get(vm, 0) = IntObject(11)
    /\ vm_get(vm, 3) = IntObject(33)
    /\ Occupied(vm) = {0, 1, 2, 3}

\* C14: the assertion of gc_mark ("Object not allocated") never fails.
C14_MarkAssertionHolds ==
    err # NotAllocated

\* Some pair reaches its own slot through first/second.
Cyclic(v) == \E h \in ObjectIndex : h \in Closure(v, Children(v, h))

\* C15: no occupied pair reaches its own handle through first/second.
C15_Acyclic ==
    \A h \in Occupied(vm) : h \notin Closure(vm, Children(vm, h))

\* C16: every handle on the stack names an occupied slot, and the first and
\* second of a pair just built by vm_push_pair name occupied slots.
C16_RootsOccupied ==
    /\ Roots(vm) \subseteq Occupied(vm)
    /\ (op = "vm_push_pair" /\ err = NoErr) =>
          LET obj == vm_get(vm, vm.stack[Len(vm.stack)])
          IN  {obj.first, obj.second} \subseteq Occupied(vm)

\* A pair built from two roots that survived several collections, one of
\* them in a slot that an earlier collection had freed.
C16_Witness ==
    /\ op = "vm_push_pair"
    /\ err = NoErr
    /\ gc_cycles = "many"
    /\ vm.stack = <<1>>
    /\ vm_get(vm, 1) = PairObject(0, 2)
    /\ {0, 2} \subseteq Occupied(vm)

\* C17: a successful vm_push_int or vm_push_pair stores the object at the
\* lowest slot below OBJECTS_MAX that was not occupied and pushes that
\* index; the slot scan never leaves the table.
C17_FirstFit ==
    [][ /\ err' # OutOfBounds
        /\ (op' \in {"vm_push_int", "vm_push_pair"} /\ err' = NoErr) =>
              LET h == vm'.stack[Len(vm'.stack)]
              IN  /\ h \in ObjectIndex
                  /\ ~vm.allocation_table[h].allocated
                  /\ \A i \in 0 .. (h - 1) : vm.allocation_table[i].allocated
                  /\ vm'.allocation_table[h].allocated
                  /\ Occupied(vm') = Occupied(vm) \cup {h}
      ]_vars

\* After a collection freed slots 0 and 1 and left 2 occupied, a push took
\* slot 0 and left the higher free slots 1 and 3 alone.
C17_Witness ==
    /\ op = "vm_push_int"
    /\ err = NoErr
    /\ gc_cycles # "none"
    /\ vm.stack[Len(vm.stack)] = 0
    /\ Occupied(vm) = {0, 2}
    /\ vm_get(vm, 1) = FREED

\* C18: object_count is the number of occupied slots and lies between 0 and
\* OBJECTS_MAX.
C18_CountIsOccupied ==
    /\ vm.object_count = Cardinality(Occupied(vm))
    /\ vm.object_count >= 0
    /\ vm.object_count <= OBJECTS_MAX

\* A collection has freed two of four objects, behind them a slot is occupied.
C18_Witness ==
    /\ Collected
    /\ vm.object_count = 2
    /\ Occupied(vm) = {2, 3}
    /\ vm_get(vm, 0) = FREED
    /\ vm_get(vm, 1) = FREED

\* C12: after vm_free no Object block allocated by vm_push_int or
\* vm_push_pair is still allocated.
C12_FreeReleasesObjects ==
    op = "vm_free" => heap = 0

\* C19: gc_mark on an occupied slot that is already marked changes nothing
\* and marks nothing; gc_mark twice on the same slot leaves the VM as
\* gc_mark once does, the second call marking nothing more.
C19_MarkIdempotent ==
    (err = NoErr /\ pc # "freed") =>
        \A h \in Occupied(vm) :
            /\ vm.allocation_table[h].marked => gc_mark(Proc, h) = Proc
            /\ gc_mark(gc_mark(Proc, h), h) = gc_mark(Proc, h)

\* gc_mark_all has called gc_mark on a root pair that was marked already
\* while one of its fields was not: nothing was marked.
C19_Witness ==
    /\ op = "gc_mark_all"
    /\ err = NoErr
    /\ descents = 0
    /\ \E h \in Roots(vm) :
          /\ vm.allocation_table[h].marked
          /\ Children(vm, h) # {}
          /\ ~(Children(vm, h) \subseteq Marked(vm))

\* C20: the mark phase is bounded: gc_mark descends (sets a mark bit and
\* goes on to the fields) at most once per slot, so the descents of one
\* gc_mark_all are no more than the slots that are marked after it, on
\* cyclic graphs too.
C20_MarkTerminates ==
    /\ descents <= Cardinality(Marked(vm))
    /\ descents <= OBJECTS_MAX

\* gc_mark_all has gone round a cycle of two pairs and marked each of the
\* four slots once.
C20_Witness ==
    /\ op = "gc_mark_all"
    /\ err = NoErr
    /\ Cyclic(vm)
    /\ descents = 4
    /\ Marked(vm) = {0, 1, 2, 3}

====
